---- MODULE Spec2Model ----
(***************************************************************************)
(* Model of src/index.ts (class Result of the QLDB Node.js driver):        *)
(* Result.create / _fetchResultPages / _handleBlob, bufferResultStream /   *)
(* _readResultStream and getResultList, together with the two collaborators*)
(* they talk to: the Communicator (fetchPage) and the ResultStream.        *)
(***************************************************************************)
EXTENDS Integers, Sequences, FiniteSets, TLC

\* ------------------------------------------------------------------ bounds
MaxCalls == 2       \* call slots (Result.create / bufferResultStream invocations)
MaxPages == 3       \* pages in one page chain
MaxValues == 2      \* values in one page chain, over all its pages
MaxGets == 1        \* getResultList calls on one Result
MaxCopies == 2      \* getResultList calls on one Result whose caller edits the copies

Calls == 1..MaxCalls
SeqCalls == {1}     \* the calls that run under Spec (one call at a time)

\* ------------------------------------------------------------------ data
\* The runtime representations an IonBinary slot can arrive in (the union type
\* Buffer|Uint8Array|Blob|string of the service client).
Reps == {"Buffer", "Uint8Array", "string", "Blob"}
TxnIds == {"txnA", "txnB"}
FetchErrors == {"OccConflictException", "InvalidSessionException"}
NoToken == 0        \* NextPageToken undefined
NoRef == 0          \* no array / no Result

NoPage == [hasValues |-> FALSE, Values |-> <<>>, NextPageToken |-> NoToken]
Pending == [state |-> "pending", error |-> "none"]
Fulfilled == [state |-> "fulfilled", error |-> "none"]
Rejected(err) == [state |-> "rejected", error |-> err]

RECURSIVE SeqsOver(_, _)
\* all sequences over S of length exactly n
SeqsOver(S, n) ==
    IF n = 0 THEN {<<>>}
    ELSE {Append(s, x) : s \in SeqsOver(S, n - 1), x \in S}

RECURSIVE Flatten(_)
\* concatenation of a sequence of sequences
Flatten(ss) == IF ss = <<>> THEN <<>> ELSE Head(ss) \o Flatten(Tail(ss))

\* The values of a page as the service sent them (an absent Values holds none).
ValuesOf(page) == IF page.hasValues THEN page.Values ELSE <<>>

RECURSIVE AllValues(_)
\* the concatenation of the pages' Values in page order
AllValues(pages) ==
    IF pages = <<>> THEN <<>> ELSE ValuesOf(Head(pages)) \o AllValues(Tail(pages))

\* A page the service can send as page number n of a chain that has already
\* delivered `sent` values: k payloads in any representation, each a distinct
\* document (numbered by its position in the chain), Values present or absent,
\* and a NextPageToken (naming page n + 1) or none.
PagesAt(n, sent) ==
    { [hasValues |-> hv,
       Values |-> [i \in 1..Len(reps) |->
                      [IonBinary |-> [rep |-> reps[i], doc |-> sent + i]]],
       NextPageToken |-> IF more THEN n + 1 ELSE NoToken] :
        reps \in UNION {SeqsOver(Reps, k) : k \in 0..(MaxValues - sent)},
        hv \in BOOLEAN, more \in {m \in BOOLEAN : m => n < MaxPages} }

PageChoices(n, sent) == {p \in PagesAt(n, sent) : p.hasValues \/ p.Values = <<>>}

\* ------------------------------------------------------------------ state
VARIABLES
    pc,               \* per call: "idle", "await", "settled" (Result.create);
                      \*           "flowing", "sawait", "ended", "errored" (stream)
    txnId,            \* per call: the txnId argument
    currentPage,      \* per call: currentPage of _fetchResultPages / the stream's page
    pageValuesArray,  \* per call: pageValuesArray of _fetchResultPages
    retrieveIndex,    \* per call: the stream's position in its current page
    listOfReaders,    \* per call: the array listOfReaders of _readResultStream
    calls,            \* per call: the fetchPage calls issued, in order
    inflight,         \* per call: fetchPage calls issued and not yet completed
    served,           \* per call: the pages received so far (first page included)
    fetchError,       \* per call: the error a fetchPage call failed with, or "none"
    inspected,        \* per call: the payloads handed to _handleBlob, in order
    emitted,          \* per call: the events the ResultStream has emitted
    promise,          \* per call: the promise returned to the caller
    result,           \* per call: the Result's _resultList (an array reference)
    heap,             \* the arrays allocated so far (a reference is an index)
    returned          \* per call: the arrays getResultList has returned

vars == <<pc, txnId, currentPage, pageValuesArray, retrieveIndex, listOfReaders,
          calls, inflight, served, fetchError, inspected, emitted, promise,
          result, heap, returned>>

NotCalled == [state |-> "none", error |-> "none"]

Init ==
    /\ pc = [c \in Calls |-> "idle"]
    /\ txnId = [c \in Calls |-> "none"]
    /\ currentPage = [c \in Calls |-> NoPage]
    /\ pageValuesArray = [c \in Calls |-> <<>>]
    /\ retrieveIndex = [c \in Calls |-> 0]
    /\ listOfReaders = [c \in Calls |-> NoRef]
    /\ calls = [c \in Calls |-> <<>>]
    /\ inflight = [c \in Calls |-> 0]
    /\ served = [c \in Calls |-> <<>>]
    /\ fetchError = [c \in Calls |-> "none"]
    /\ inspected = [c \in Calls |-> <<>>]
    /\ emitted = [c \in Calls |-> <<>>]
    /\ promise = [c \in Calls |-> NotCalled]
    /\ result = [c \in Calls |-> NoRef]
    /\ heap = <<>>
    /\ returned = [c \in Calls |-> <<>>]

\* ------------------------------------------------------------------ Result
\* ion-js makeReader: a new Reader over the payload it is given.
makeReader(ionBinary) == [src |-> ionBinary]

HandleBlob_NoString(ionBinary) ==
    IF ionBinary.rep \in {"Buffer", "Uint8Array"}
    THEN [error |-> "none", value |-> ionBinary]
    ELSE [error |-> "ClientException", value |-> ionBinary]

\* Result._handleBlob: the payload itself when it is a Buffer, a Uint8Array or
\* a string; throws ClientException otherwise.
_handleBlob(ionBinary) ==
    IF ionBinary.rep = "Buffer" THEN [error |-> "none", value |-> ionBinary]
    ELSE IF ionBinary.rep = "Uint8Array" THEN [error |-> "none", value |-> ionBinary]
    ELSE IF ionBinary.rep = "string" THEN [error |-> "none", value |-> ionBinary]
    ELSE [error |-> "ClientException", value |-> ionBinary]

\* `currentPage.Values && currentPage.Values.length > 0`
HasValues(page) == page.hasValues /\ Len(page.Values) > 0

PushPage_Prepend(pva, page) ==
    IF HasValues(page) THEN <<page.Values>> \o pva ELSE pva

\* `if (currentPage.Values && ...) { pageValuesArray.push(currentPage.Values); }`
PushPage(pva, page) ==
    IF HasValues(page) THEN Append(pva, page.Values) ELSE pva

LoopContinues_NonEmpty(page) == page.NextPageToken # NoToken /\ HasValues(page)

\* `while (currentPage.NextPageToken)`
LoopContinues(page) == page.NextPageToken # NoToken

\* the arguments of `communicator.fetchPage(txnId, currentPage.NextPageToken)`
fetchPageArgs(txn, page) == [txnId |-> txn, token |-> page.NextPageToken]

RECURSIVE ReadAll(_, _, _)
\* The two nested forEach loops over the value holders, in order: each payload
\* goes through _handleBlob and makeReader; the first throw ends the loops.
ReadAll(holders, readers, seen) ==
    IF holders = <<>>
    THEN [error |-> "none", readers |-> readers, inspected |-> seen]
    ELSE LET b == _handleBlob(Head(holders).IonBinary)
             seen2 == Append(seen, Head(holders).IonBinary)
         IN  IF b.error # "none"
             THEN [error |-> b.error, readers |-> readers, inspected |-> seen2]
             ELSE ReadAll(Tail(holders), Append(readers, makeReader(b.value)), seen2)

\* readerList built from pageValuesArray
BuildReaders(pva) == ReadAll(Flatten(pva), <<>>, <<>>)

\* The end of _fetchResultPages and of Result.create: build the readers, then
\* `new Result(resultList)` and fulfil, or reject with what was thrown.
Finish(c, pva) ==
    LET r == BuildReaders(pva) IN
    /\ pc' = [pc EXCEPT ![c] = "settled"]
    /\ pageValuesArray' = [pageValuesArray EXCEPT ![c] = pva]
    /\ inspected' = [inspected EXCEPT ![c] = r.inspected]
    /\ IF r.error = "none"
       THEN /\ heap' = Append(heap, r.readers)
            /\ result' = [result EXCEPT ![c] = Len(heap) + 1]
            /\ promise' = [promise EXCEPT ![c] = Fulfilled]
       ELSE /\ promise' = [promise EXCEPT ![c] = Rejected(r.error)]
            /\ UNCHANGED <<heap, result>>

\* One turn of the while loop's test with `page` as currentPage: issue the next
\* fetchPage and suspend at the await, or leave the loop and finish.
\* infl is the number of calls in flight when the test is made.
AfterPage(c, txn, page, pva, infl) ==
    /\ currentPage' = [currentPage EXCEPT ![c] = page]
    /\ IF LoopContinues(page)
       THEN /\ pc' = [pc EXCEPT ![c] = "await"]
            /\ pageValuesArray' = [pageValuesArray EXCEPT ![c] = pva]
            /\ calls' = [calls EXCEPT ![c] = Append(@, fetchPageArgs(txn, page))]
            /\ inflight' = [inflight EXCEPT ![c] = infl + 1]
            /\ promise' = [promise EXCEPT ![c] = Pending]
            /\ UNCHANGED <<inspected, heap, result>>
       ELSE /\ Finish(c, pva)
            /\ inflight' = [inflight EXCEPT ![c] = infl]
            /\ UNCHANGED calls

Create_DoWhile(c, txn, page) ==
    /\ pc[c] = "idle"
    /\ promise[c] = NotCalled
    /\ pc' = [pc EXCEPT ![c] = "await"]
    /\ txnId' = [txnId EXCEPT ![c] = txn]
    /\ served' = [served EXCEPT ![c] = <<page>>]
    /\ currentPage' = [currentPage EXCEPT ![c] = page]
    /\ pageValuesArray' = [pageValuesArray EXCEPT ![c] = PushPage(<<>>, page)]
    /\ calls' = [calls EXCEPT ![c] = <<fetchPageArgs(txn, page)>>]
    /\ inflight' = [inflight EXCEPT ![c] = 1]
    /\ promise' = [promise EXCEPT ![c] = Pending]
    /\ UNCHANGED <<fetchError, retrieveIndex, listOfReaders, emitted, returned,
                   inspected, heap, result>>

\* Result.create(txnId, page, communicator), up to its first await (or to its
\* end when the first page has no NextPageToken).
Create(c, txn, page) ==
    /\ pc[c] = "idle"
    /\ txnId' = [txnId EXCEPT ![c] = txn]
    /\ served' = [served EXCEPT ![c] = <<page>>]
    /\ promise[c] = NotCalled
    /\ AfterPage(c, txn, page, PushPage(<<>>, page), 0)
    /\ UNCHANGED <<fetchError, retrieveIndex, listOfReaders, emitted, returned>>

\* The page the service sends next to call c.
NextPages(c) == PageChoices(Len(served[c]) + 1, Len(AllValues(served[c])))

FetchReturn_StaleToken(c, page) ==
    /\ pc[c] = "await"
    /\ served' = [served EXCEPT ![c] = Append(@, page)]
    /\ AfterPage(c, txnId[c],
                 [page EXCEPT !.NextPageToken =
                     IF page.NextPageToken = NoToken THEN NoToken
                     ELSE currentPage[c].NextPageToken],
                 PushPage(pageValuesArray[c], page), inflight[c] - 1)
    /\ UNCHANGED <<fetchError, txnId, retrieveIndex, listOfReaders, emitted, returned>>

FetchReturn_Eager(c, page) ==
    /\ pc[c] = "await"
    /\ served' = [served EXCEPT ![c] = Append(@, page)]
    /\ IF BuildReaders(<<ValuesOf(page)>>).error # "none"
       THEN /\ currentPage' = [currentPage EXCEPT ![c] = page]
            /\ Finish(c, PushPage(pageValuesArray[c], page))
            /\ inflight' = [inflight EXCEPT ![c] = @ - 1]
            /\ UNCHANGED calls
       ELSE AfterPage(c, txnId[c], page, PushPage(pageValuesArray[c], page),
                      inflight[c] - 1)
    /\ UNCHANGED <<fetchError, txnId, retrieveIndex, listOfReaders, emitted, returned>>

FetchReturn_Shared(c, page) ==
    /\ pc[c] = "await"
    /\ served' = [served EXCEPT ![c] = Append(@, page)]
    /\ AfterPage(c, txnId[c], page,
                 PushPage(Flatten([d \in 1..MaxCalls |-> pageValuesArray[d]]), page),
                 inflight[c] - 1)
    /\ UNCHANGED <<fetchError, txnId, retrieveIndex, listOfReaders, emitted, returned>>

\* The awaited fetchPage returns `page`: `currentPage = fetchPageResult.Page`,
\* the push of its Values, and the loop's next test.
FetchReturn(c, page) ==
    /\ pc[c] = "await"
    /\ served' = [served EXCEPT ![c] = Append(@, page)]
    /\ AfterPage(c, txnId[c], page, PushPage(pageValuesArray[c], page),
                 inflight[c] - 1)
    /\ UNCHANGED <<fetchError, txnId, retrieveIndex, listOfReaders, emitted, returned>>

FetchFail_Partial(c, err) ==
    /\ pc[c] = "await"
    /\ Finish(c, pageValuesArray[c])
    /\ inflight' = [inflight EXCEPT ![c] = @ - 1]
    /\ fetchError' = [fetchError EXCEPT ![c] = err]
    /\ UNCHANGED <<txnId, currentPage, retrieveIndex, listOfReaders, calls,
                   served, emitted, returned>>

\* The awaited fetchPage rejects with err: nothing catches it, so
\* _fetchResultPages and Result.create reject with it.
FetchFail(c, err) ==
    /\ pc[c] = "await"
    /\ pc' = [pc EXCEPT ![c] = "settled"]
    /\ promise' = [promise EXCEPT ![c] = Rejected(err)]
    /\ inflight' = [inflight EXCEPT ![c] = @ - 1]
    /\ fetchError' = [fetchError EXCEPT ![c] = err]
    /\ UNCHANGED <<txnId, currentPage, pageValuesArray, retrieveIndex,
                   listOfReaders, calls, served, inspected, emitted, result,
                   heap, returned>>

getResultList_Splice(h, ref) ==
    [heap |-> Append([h EXCEPT ![ref] = <<>>], h[ref]), ret |-> Len(h) + 1]

getResultList_Alias(h, ref) == [heap |-> h, ret |-> ref]

\* Result.getResultList: `this._resultList.slice()`, a new array holding the
\* same entries. Gives the heap after the call and the reference returned.
getResultList(h, ref) == [heap |-> Append(h, h[ref]), ret |-> Len(h) + 1]

\* A caller holding the Result of call c calls getResultList(), for at most
\* the n-th time.
GetResultListUpTo(c, n) ==
    /\ promise[c].state = "fulfilled"
    /\ Len(returned[c]) < n
    /\ LET r == getResultList(heap, result[c]) IN
        /\ heap' = r.heap
        /\ returned' = [returned EXCEPT ![c] = Append(@, r.ret)]
    /\ UNCHANGED <<fetchError, pc, txnId, currentPage, pageValuesArray, retrieveIndex,
                   listOfReaders, calls, inflight, served, inspected, emitted,
                   promise, result>>

\* A caller holding the Result of call c calls getResultList().
GetResultList(c) == GetResultListUpTo(c, MaxGets)

\* what a caller can do to an array it was given
ArrayEdits == {"push", "pop", "reverse"}
\* a reader of the caller's own, not one of the Result's
CallerReader == makeReader([rep |-> "string", doc |-> 0])
Reverse(seq) == [i \in 1..Len(seq) |-> seq[Len(seq) + 1 - i]]
EditArray(seq, op) ==
    IF op = "push" THEN Append(seq, CallerReader)
    ELSE IF op = "pop" THEN SubSeq(seq, 1, Len(seq) - 1)
    ELSE Reverse(seq)

\* The caller edits, in place, the i-th array getResultList returned to it:
\* it adds an entry, removes the last entry or reverses the order. Each
\* returned array is edited while it still holds what the Result holds.
CallerEdits(c, i, op) ==
    /\ promise[c].state = "fulfilled"
    /\ i \in 1..Len(returned[c])
    /\ heap[returned[c][i]] = heap[result[c]]
    /\ op = "pop" => Len(heap[returned[c][i]]) > 0
    /\ op = "push" => Len(heap[returned[c][i]]) <= MaxValues
    /\ heap' = [heap EXCEPT ![returned[c][i]] = EditArray(@, op)]
    /\ heap' # heap
    /\ UNCHANGED <<fetchError, pc, txnId, currentPage, pageValuesArray, retrieveIndex,
                   listOfReaders, calls, inflight, served, inspected, emitted,
                   promise, result, returned>>

\* ------------------------------------------------------------------ stream
onData_Unshift(h, ref, reader) == [h EXCEPT ![ref] = <<reader>> \o @]

\* the "data" handler of _readResultStream: `listOfReaders.push(reader)`
onData(h, ref, reader) == [h EXCEPT ![ref] = Append(@, reader)]

\* Result.bufferResultStream(resultStream) on a new ResultStream over
\* (txn, page): _readResultStream creates listOfReaders and registers its
\* "data" and "end" handlers; the promise is pending.
BufferResultStream(c, txn, page) ==
    /\ pc[c] = "idle"
    /\ pc' = [pc EXCEPT ![c] = "flowing"]
    /\ txnId' = [txnId EXCEPT ![c] = txn]
    /\ currentPage' = [currentPage EXCEPT ![c] = page]
    /\ retrieveIndex' = [retrieveIndex EXCEPT ![c] = 1]
    /\ served' = [served EXCEPT ![c] = <<page>>]
    /\ heap' = Append(heap, <<>>)
    /\ listOfReaders' = [listOfReaders EXCEPT ![c] = Len(heap) + 1]
    /\ promise' = [promise EXCEPT ![c] = Pending]
    /\ UNCHANGED <<fetchError, pageValuesArray, calls, inflight, inspected, emitted, result,
                   returned>>

\* The stream yields the next value of its current page as a "data" event (the
\* handler runs), or emits "error" when the payload is not an accepted one.
StreamData(c) ==
    /\ pc[c] = "flowing"
    /\ retrieveIndex[c] <= Len(ValuesOf(currentPage[c]))
    /\ LET b == _handleBlob(ValuesOf(currentPage[c])[retrieveIndex[c]].IonBinary) IN
       IF b.error = "none"
       THEN /\ heap' = onData(heap, listOfReaders[c], makeReader(b.value))
            /\ emitted' = [emitted EXCEPT ![c] =
                              Append(@, [type |-> "data", reader |-> makeReader(b.value)])]
            /\ retrieveIndex' = [retrieveIndex EXCEPT ![c] = @ + 1]
            /\ UNCHANGED pc
       ELSE /\ pc' = [pc EXCEPT ![c] = "errored"]
            /\ emitted' = [emitted EXCEPT ![c] =
                              Append(@, [type |-> "error", reader |-> makeReader(b.value)])]
            /\ UNCHANGED <<heap, retrieveIndex>>
    /\ UNCHANGED <<fetchError, txnId, currentPage, pageValuesArray, listOfReaders, calls,
                   inflight, served, inspected, promise, result, returned>>

\* The stream's current page is exhausted and has a continuation token: the
\* stream issues one fetchPage for the next page.
StreamFetch(c) ==
    /\ pc[c] = "flowing"
    /\ retrieveIndex[c] > Len(ValuesOf(currentPage[c]))
    /\ currentPage[c].NextPageToken # NoToken
    /\ pc' = [pc EXCEPT ![c] = "sawait"]
    /\ calls' = [calls EXCEPT ![c] = Append(@, fetchPageArgs(txnId[c], currentPage[c]))]
    /\ inflight' = [inflight EXCEPT ![c] = @ + 1]
    /\ UNCHANGED <<fetchError, txnId, currentPage, pageValuesArray, retrieveIndex,
                   listOfReaders, served, inspected, emitted, promise, result,
                   heap, returned>>

\* The stream's fetchPage returns `page`, which becomes its current page.
StreamFetchReturn(c, page) ==
    /\ pc[c] = "sawait"
    /\ pc' = [pc EXCEPT ![c] = "flowing"]
    /\ currentPage' = [currentPage EXCEPT ![c] = page]
    /\ retrieveIndex' = [retrieveIndex EXCEPT ![c] = 1]
    /\ served' = [served EXCEPT ![c] = Append(@, page)]
    /\ inflight' = [inflight EXCEPT ![c] = @ - 1]
    /\ UNCHANGED <<fetchError, txnId, pageValuesArray, listOfReaders, calls, inspected,
                   emitted, promise, result, heap, returned>>

\* The stream's fetchPage fails: the stream emits "error" and never "end".
\* _readResultStream registered no "error" handler, so nothing runs.
StreamFetchFail(c, err) ==
    /\ pc[c] = "sawait"
    /\ pc' = [pc EXCEPT ![c] = "errored"]
    /\ emitted' = [emitted EXCEPT ![c] =
                      Append(@, [type |-> "error", reader |-> makeReader(err)])]
    /\ inflight' = [inflight EXCEPT ![c] = @ - 1]
    /\ fetchError' = [fetchError EXCEPT ![c] = err]
    /\ UNCHANGED <<txnId, currentPage, pageValuesArray, retrieveIndex,
                   listOfReaders, calls, served, inspected, promise, result,
                   heap, returned>>

\* the "end" handler of _readResultStream, `res(listOfReaders)`, and what
\* bufferResultStream does with it: `new Result(resultList)` over that array.
onEnd(c) ==
    /\ result' = [result EXCEPT ![c] = listOfReaders[c]]
    /\ promise' = [promise EXCEPT ![c] = Fulfilled]

\* The stream's last page is exhausted and has no token: it emits "end".
StreamEnd(c) ==
    /\ pc[c] = "flowing"
    /\ retrieveIndex[c] > Len(ValuesOf(currentPage[c]))
    /\ currentPage[c].NextPageToken = NoToken
    /\ pc' = [pc EXCEPT ![c] = "ended"]
    /\ emitted' = [emitted EXCEPT ![c] =
                      Append(@, [type |-> "end", reader |-> makeReader("none")])]
    /\ onEnd(c)
    /\ UNCHANGED <<fetchError, txnId, currentPage, pageValuesArray, retrieveIndex,
                   listOfReaders, calls, inflight, served, inspected, heap,
                   returned>>

\* ------------------------------------------------------------------ system
FirstPages == PageChoices(1, 0)

\* the steps of call c that the runtime, the service and the stream take
Progress(c) ==
    \/ \E page \in NextPages(c) : FetchReturn(c, page)
    \/ \E err \in FetchErrors : FetchFail(c, err)
    \/ StreamData(c)
    \/ StreamFetch(c)
    \/ \E page \in NextPages(c) : StreamFetchReturn(c, page)
    \/ \E err \in FetchErrors : StreamFetchFail(c, err)
    \/ StreamEnd(c)

\* the steps of call c that the caller takes
Caller(c) ==
    \/ \E txn \in TxnIds, page \in FirstPages : Create(c, txn, page)
    \/ \E txn \in TxnIds, page \in FirstPages : BufferResultStream(c, txn, page)
    \/ GetResultList(c)

Next == \E c \in SeqCalls : Caller(c) \/ Progress(c)

Spec == Init /\ [][Next]_vars

\* Every fetchPage completes, the stream keeps emitting, continuations run.
FairSpec == Spec /\ \A c \in SeqCalls : WF_vars(Progress(c))

\* ------------------------------------------------------------------ concurrent calls
ConcCalls == {1, 2}     \* the Result.create calls that run concurrently
ConcReps == {"string", "Blob"}
\* each concurrent create is given its own transaction
ConcTxn(c) == IF c = 1 THEN "txnA" ELSE "txnB"

\* the error the service fails a fetchPage of call c's transaction with
ConcErr(c) == IF c = 1 THEN "OccConflictException" ELSE "InvalidSessionException"

\* The page with its documents renumbered into the range of call c's statement,
\* so that the values of different calls' chains are different values.
Retag(c, page) ==
    [page EXCEPT !.Values =
        [i \in 1..Len(page.Values) |->
            [IonBinary |-> [rep |-> page.Values[i].IonBinary.rep,
                            doc |-> page.Values[i].IonBinary.doc + (c - 1) * MaxValues]]]]

\* The pages the service can send to call c as page n of its chain.
ConcPagesAt(c, n, sent) ==
    { Retag(c, p) : p \in { q \in PageChoices(n, sent) :
                              /\ q.hasValues
                              /\ \A i \in 1..Len(q.Values) :
                                    q.Values[i].IonBinary.rep \in ConcReps } }

\* Two Result.create calls on one event loop: each runs to its await, and the
\* service completes the outstanding fetchPage calls in any order.
NextConc ==
    \E c \in ConcCalls :
        \/ \E page \in ConcPagesAt(c, 1, 0) : Create(c, ConcTxn(c), page)
        \/ \E page \in ConcPagesAt(c, Len(served[c]) + 1, Len(AllValues(served[c]))) :
              FetchReturn(c, page)
        \/ FetchFail(c, ConcErr(c))

SpecConc == Init /\ [][NextConc]_vars

\* ------------------------------------------------------------------ caller-owned copies
\* One Result.create, whose caller then reads the Result with getResultList
\* and edits the arrays it was given.
NextCopy ==
    \E c \in SeqCalls :
        \/ \E page \in ConcPagesAt(c, 1, 0) : Create(c, ConcTxn(c), page)
        \/ \E page \in ConcPagesAt(c, Len(served[c]) + 1, Len(AllValues(served[c]))) :
              FetchReturn(c, page)
        \/ FetchFail(c, ConcErr(c))
        \/ GetResultListUpTo(c, MaxCopies)
        \/ \E i \in 1..MaxCopies, op \in ArrayEdits : CallerEdits(c, i, op)

SpecCopy == Init /\ [][NextCopy]_vars

\* ------------------------------------------------------------------ claims
IsCreate(c) == pc[c] \in {"await", "settled"}
IsStream(c) == pc[c] \in {"flowing", "sawait", "ended", "errored"}
Last(seq) == seq[Len(seq)]
AcceptedReps == {"Buffer", "Uint8Array", "string"}
AllAccepted(pages) ==
    \A i \in 1..Len(AllValues(pages)) : AllValues(pages)[i].IonBinary.rep \in AcceptedReps
\* one reader per value of the chain, in chain order, each over that value's payload
ExpectedReaders(pages) ==
    [i \in 1..Len(AllValues(pages)) |-> [src |-> AllValues(pages)[i].IonBinary]]
\* the Result's list as getResultList sees it
ListOf(c) == heap[result[c]]
ChainComplete(c) == served[c] # <<>> /\ Last(served[c]).NextPageToken = NoToken

\* C1 (pagination completeness): when Result.create fulfils, the Result's list,
\* and every list getResultList returns, holds one reader per value of the page
\* chain, the j-th reader built from the j-th value of the concatenation of the
\* pages' Values in page order; and a complete chain of accepted payloads always
\* fulfils.
C1_PaginationComplete ==
    \A c \in Calls : pc[c] = "settled" =>
        /\ promise[c].state = "fulfilled" =>
             /\ ListOf(c) = ExpectedReaders(served[c])
             /\ Len(ListOf(c)) = Len(AllValues(served[c]))
             /\ \A i \in 1..Len(returned[c]) :
                    heap[returned[c][i]] = ExpectedReaders(served[c])
        /\ (ChainComplete(c) /\ AllAccepted(served[c]) /\ fetchError[c] = "none")
             => promise[c].state = "fulfilled"

\* C1 witness: a fulfilled create over three pages, with values on two
\* different pages, whose list has been read with getResultList.
C1_Witness ==
    \E c \in Calls :
        /\ pc[c] = "settled" /\ promise[c].state = "fulfilled"
        /\ Len(served[c]) = 3
        /\ HasValues(served[c][1]) /\ HasValues(served[c][3])
        /\ returned[c] # <<>>

\* C2 (empty-page skip): in Result.create a page without values adds no entry
\* to pageValuesArray; when such a page carries a NextPageToken, fetchPage is
\* called with that token; and the values of every later page are in the Result.
C2_EmptyPageSkip ==
    \A c \in Calls : IsCreate(c) =>
        /\ \A k \in 1..Len(pageValuesArray[c]) : pageValuesArray[c][k] # <<>>
        /\ Len(pageValuesArray[c]) =
               Cardinality({i \in 1..Len(served[c]) : HasValues(served[c][i])})
        /\ \A i \in 1..Len(served[c]) :
             (~HasValues(served[c][i]) /\ served[c][i].NextPageToken # NoToken) =>
                /\ Len(calls[c]) >= i
                /\ calls[c][i].token = served[c][i].NextPageToken
                /\ promise[c].state = "fulfilled" =>
                     \A j \in (i + 1)..Len(served[c]) :
                        \A v \in 1..Len(ValuesOf(served[c][j])) :
                           \E k \in 1..Len(ListOf(c)) :
                              ListOf(c)[k].src = ValuesOf(served[c][j])[v].IonBinary

\* C2 witness: a fulfilled create whose first page had no values and a token,
\* followed by a fetched page without values and a token, then a page with values.
C2_Witness ==
    \E c \in Calls :
        /\ pc[c] = "settled" /\ promise[c].state = "fulfilled"
        /\ Len(served[c]) = 3
        /\ ~HasValues(served[c][1]) /\ ~served[c][2].hasValues
        /\ Len(ListOf(c)) = 2

\* C3 (no truncated Result): when a fetchPage call of Result.create fails, the
\* create rejects with that same error and no Result exists.
C3_NoTruncatedResult ==
    \A c \in Calls : (IsCreate(c) /\ fetchError[c] # "none") =>
        /\ promise[c] = Rejected(fetchError[c])
        /\ result[c] = NoRef
        /\ returned[c] = <<>>

\* C3 witness: the second fetchPage fails after pages with values were fetched.
C3_Witness ==
    \E c \in Calls :
        /\ IsCreate(c) /\ fetchError[c] # "none"
        /\ Len(calls[c]) = 2
        /\ Len(AllValues(served[c])) = 2

\* C4 (payload normalization): once every page is fetched, payloads that are
\* all a Buffer, a Uint8Array or a string give a Result whose readers are built
\* over exactly those payloads, unchanged; any other representation rejects the
\* create with ClientException and no Result exists.
C4_PayloadNormalization ==
    \A c \in Calls : (pc[c] = "settled" /\ fetchError[c] = "none") =>
        IF AllAccepted(served[c])
        THEN /\ promise[c].state = "fulfilled"
             /\ \A i \in 1..Len(AllValues(served[c])) :
                    /\ i <= Len(ListOf(c))
                    /\ ListOf(c)[i].src.rep = AllValues(served[c])[i].IonBinary.rep
                    /\ ListOf(c)[i].src.doc = AllValues(served[c])[i].IonBinary.doc
        ELSE /\ promise[c] = Rejected("ClientException")
             /\ result[c] = NoRef
             /\ Last(inspected[c]).rep \notin AcceptedReps

\* C4 witness: a string payload was accepted and the Blob after it was refused.
C4_Witness ==
    \E c \in Calls :
        /\ pc[c] = "settled"
        /\ Len(inspected[c]) = 2
        /\ inspected[c][1].rep = "string" /\ inspected[c][2].rep = "Blob"
        /\ promise[c] = Rejected("ClientException")

\* C5 (sequential fetches): a Result.create never has more than one fetchPage
\* in flight, has issued its i-th call only after receiving i pages, and its
\* i-th call carries the create's txnId and the NextPageToken of the i-th page
\* received (the first call the first page's).
C5_SequentialFetches ==
    \A c \in Calls : IsCreate(c) =>
        /\ inflight[c] \in {0, 1}
        /\ inflight[c] = 1 <=> pc[c] = "await"
        /\ Len(calls[c]) <= Len(served[c])
        /\ Len(calls[c]) = Len(served[c]) - 1 + inflight[c]
                            + (IF fetchError[c] # "none" THEN 1 ELSE 0)
        /\ \A i \in 1..Len(calls[c]) :
              /\ calls[c][i].txnId = txnId[c]
              /\ calls[c][i].token = served[c][i].NextPageToken
              /\ calls[c][i].token # NoToken

\* C5 witness: the second fetchPage of a create is in flight.
C5_Witness ==
    \E c \in Calls : pc[c] = "await" /\ Len(calls[c]) = 2 /\ inflight[c] = 1

\* C6 (a buffered Result is fixed): from the moment the promise of
\* Result.create or Result.bufferResultStream is fulfilled, no step issues a
\* fetchPage call for it, and the Result and the contents of its list stay as
\* they are, whatever getResultList calls follow.
C6_BufferedResultFixed ==
    [][\A c \in Calls : promise[c].state = "fulfilled" =>
          /\ calls'[c] = calls[c]
          /\ inflight'[c] = inflight[c]
          /\ promise'[c] = promise[c]
          /\ result'[c] = result[c]
          /\ heap'[result[c]] = heap[result[c]]]_vars

\* C6 witness: getResultList has been called on a non-empty buffered Result.
C6_Witness ==
    \E c \in Calls :
        /\ promise[c].state = "fulfilled"
        /\ Len(ListOf(c)) = 2
        /\ Len(returned[c]) = MaxGets

\* C7 (no silent failure): the promise of bufferResultStream is settled once
\* its ResultStream has terminated: fulfilled when the stream ended, and
\* rejected when the stream failed while fetching a page (it emitted "error"
\* and will never emit "end").
C7_NoSilentFailure ==
    \A c \in Calls :
        /\ pc[c] = "ended" => promise[c].state = "fulfilled"
        /\ (pc[c] = "errored" /\ fetchError[c] # "none") => promise[c].state = "rejected"

\* the "data" events among the events a stream emitted, as their readers
DataReaders(events) ==
    LET data == SelectSeq(events, LAMBDA e : e.type = "data")
    IN  [i \in 1..Len(data) |-> data[i].reader]

\* C8 as stated, as its final result: a Result.create that has run to its end
\* without a fetchPage failure has fulfilled, having issued exactly N-1
\* fetchPage calls for the N pages received.
C8_AlwaysFulfils ==
    \A c \in Calls : (pc[c] = "settled" /\ fetchError[c] = "none") =>
        /\ promise[c].state = "fulfilled"
        /\ Len(calls[c]) = Len(served[c]) - 1

\* C8 (termination and call count, amended): a started Result.create
\* eventually settles; when no fetchPage failed it has then issued exactly N-1
\* fetchPage calls for the N pages received, the last of which has no
\* NextPageToken, and it is fulfilled when every payload is an accepted
\* representation and rejected with ClientException otherwise; no fetchPage
\* call is ever issued for a page without a NextPageToken.
C8_Termination ==
    /\ \A c \in Calls : IsCreate(c) ~> (pc[c] = "settled")
    /\ [](\A c \in Calls :
            /\ IsCreate(c) =>
                 \A i \in 1..Len(calls[c]) :
                    i <= Len(served[c]) /\ served[c][i].NextPageToken # NoToken
            /\ (pc[c] = "settled" /\ fetchError[c] = "none") =>
                 /\ Len(calls[c]) = Len(served[c]) - 1
                 /\ \A i \in 1..Len(served[c]) :
                       (served[c][i].NextPageToken = NoToken) <=> (i = Len(served[c]))
                 /\ inflight[c] = 0
                 /\ IF AllAccepted(served[c])
                    THEN promise[c].state = "fulfilled"
                    ELSE promise[c] = Rejected("ClientException"))

\* C8 witness: a create over three pages fulfilled after two fetchPage calls.
C8_Witness ==
    \E c \in Calls :
        /\ pc[c] = "settled" /\ promise[c].state = "fulfilled"
        /\ Len(served[c]) = 3 /\ Len(calls[c]) = 2

\* C9 (faithful buffering): the promise of bufferResultStream is pending until
\* the stream emits "end" and is fulfilled by it; the Result's list then holds
\* exactly the readers of the "data" events, in emission order, which are the
\* readers Result.create builds for the same page chain.
C9_StreamBufferedFaithfully ==
    \A c \in Calls : IsStream(c) =>
        /\ pc[c] # "ended" => (promise[c] = Pending /\ result[c] = NoRef)
        /\ pc[c] = "ended" =>
             /\ promise[c].state = "fulfilled"
             /\ Last(emitted[c]).type = "end"
             /\ ListOf(c) = DataReaders(emitted[c])
             /\ ListOf(c) = ExpectedReaders(served[c])
             /\ BuildReaders(<<AllValues(served[c])>>).readers = ListOf(c)

\* C9 witness: a stream over two pages with values has ended.
C9_Witness ==
    \E c \in Calls :
        /\ pc[c] = "ended"
        /\ Len(served[c]) >= 2
        /\ HasValues(served[c][1]) /\ HasValues(Last(served[c]))
        /\ Len(emitted[c]) = 3

\* C10 (fetch before decode): Result.create hands no payload to _handleBlob
\* before the last page is fetched, so ClientException is reported only after
\* all N-1 fetchPage calls have completed, each call carrying the token of the
\* page before it whatever the payloads; and when a fetchPage fails the create
\* rejects with the fetch error without having inspected any payload, even when
\* a page already received holds an unrecognized one.
C10_FetchBeforeDecode ==
    \A c \in Calls : IsCreate(c) =>
        /\ (inspected[c] # <<>> \/ promise[c] = Rejected("ClientException")) =>
              /\ pc[c] = "settled"
              /\ fetchError[c] = "none"
              /\ inflight[c] = 0
              /\ ChainComplete(c)
              /\ Len(calls[c]) = Len(served[c]) - 1
        /\ fetchError[c] # "none" =>
              /\ inspected[c] = <<>>
              /\ promise[c] = Rejected(fetchError[c])
        /\ \A i \in 1..Len(served[c]) :
              (served[c][i].NextPageToken # NoToken
                 /\ (i < Len(served[c]) \/ pc[c] = "await" \/ fetchError[c] # "none"))
              => (Len(calls[c]) >= i /\ calls[c][i].token = served[c][i].NextPageToken)

\* C10 witness: the first page held an unrecognized payload and a later
\* fetchPage failed.
C10_Witness ==
    \E c \in Calls :
        /\ IsCreate(c) /\ fetchError[c] # "none"
        /\ Len(served[c]) = 2
        /\ HasValues(served[c][1])
        /\ served[c][1].Values[1].IonBinary.rep = "Blob"

\* the documents of call c's statement
DocsOf(c) == ((c - 1) * MaxValues + 1)..(c * MaxValues)

\* C11 (concurrent creates are isolated): with Result.create calls interleaved
\* in any order, each call accumulates only the pages it received itself, its
\* fetchPage calls carry its own txnId, and its outcome is decided by its own
\* chain alone: rejected with its own fetch error, or rejected with
\* ClientException for its own unrecognized payload, or fulfilled with a Result
\* of its own, holding exactly the readers of its own chain's values in order,
\* whatever happened to the other calls.
C11_ConcurrentIsolation ==
    \A c \in Calls : IsCreate(c) =>
        /\ \A i \in 1..Len(calls[c]) : calls[c][i].txnId = ConcTxn(c)
        /\ Flatten(pageValuesArray[c]) = AllValues(served[c])
        /\ pc[c] = "settled" =>
             IF fetchError[c] # "none"
             THEN fetchError[c] = ConcErr(c) /\ promise[c] = Rejected(ConcErr(c))
             ELSE IF ~AllAccepted(served[c]) THEN promise[c] = Rejected("ClientException")
             ELSE /\ promise[c].state = "fulfilled"
                  /\ ListOf(c) = ExpectedReaders(served[c])
                  /\ \A k \in 1..Len(ListOf(c)) : ListOf(c)[k].src.doc \in DocsOf(c)
                  /\ \A d \in Calls \ {c} : result[d] # result[c]

\* C11 witness: both creates had a fetchPage outstanding; one was rejected by
\* a fetch failure after receiving a value, the other fulfilled with the two
\* values of its own two pages.
C11_Witness ==
    \E c, d \in Calls :
        /\ c # d
        /\ pc[c] = "settled" /\ fetchError[c] # "none" /\ Len(AllValues(served[c])) = 1
        /\ pc[d] = "settled" /\ promise[d].state = "fulfilled"
        /\ Len(calls[d]) = 1 /\ Len(ListOf(d)) = 2
        /\ HasValues(served[d][1]) /\ HasValues(served[d][2])

\* C12 (getResultList returns a fresh copy): no step, and in particular no edit
\* a caller makes to an array it was given, changes the list of a fulfilled
\* Result; and every getResultList call returns a new array, different from the
\* Result's own and from every array returned before, that holds the Result's
\* entries (the readers of the chain's values, in order).
C12_FreshCopy ==
    [][\A c \in Calls : promise[c].state = "fulfilled" =>
          /\ result'[c] = result[c]
          /\ heap'[result[c]] = heap[result[c]]
          /\ returned'[c] # returned[c] =>
                /\ Len(returned'[c]) = Len(returned[c]) + 1
                /\ Last(returned'[c]) # result[c]
                /\ Last(returned'[c]) \notin 1..Len(heap)
                /\ heap'[Last(returned'[c])] = heap[result[c]]
                /\ heap'[Last(returned'[c])] = ExpectedReaders(served[c])]_vars

\* C12 witness: the caller has reversed the first array it was given and a
\* second getResultList has returned the two entries in their original order.
C12_Witness ==
    \E c \in Calls :
        /\ promise[c].state = "fulfilled"
        /\ Len(returned[c]) = 2
        /\ Len(ListOf(c)) = 2
        /\ heap[returned[c][1]] = Reverse(ListOf(c))
        /\ heap[returned[c][2]] = ListOf(c)
        /\ ListOf(c) = ExpectedReaders(served[c])

====
